---- MODULE Spec2Model ----
(***************************************************************************)
(* Model of the GoldTradingSystem analytics core (src/trading_engine).     *)
(* The library is a set of synchronous calls over a caller-owned price     *)
(* table `df`.  Each action is one call: it records the call in `op`, its  *)
(* inputs in `arg`, its outcome in `res`, and the table as the call left   *)
(* it in `df`.                                                             *)
(***************************************************************************)
EXTENDS Integers, Sequences, FiniteSets, TLC

VARIABLES df, op, arg, loc, res

vars == <<df, op, arg, loc, res>>

(***************************************************************************)
(* Bounds of the explored inputs.                                          *)
(***************************************************************************)
MaxLen == 3

MaxPrice == 2

MaxPeriod == 3

MaxStep == 2

(***************************************************************************)
(* Floating-point values as the code sees them: a finite value (an exact   *)
(* fraction n/d in lowest terms), NaN, or an infinity.  Comparisons with   *)
(* NaN are false, as in Python and numpy.                                  *)
(***************************************************************************)
RECURSIVE GCD(_, _)
GCD(a, b) == IF b = 0 THEN a ELSE GCD(b, a % b)

Abs(x) == IF x < 0 THEN -x ELSE x

Fin(n, d) == LET g == GCD(Abs(n), d) IN [k |-> "fin", n |-> n \div g, d |-> d \div g]

Num(i) == [k |-> "fin", n |-> i, d |-> 1]

NaN == [k |-> "nan", n |-> 0, d |-> 1]

PInf == [k |-> "pinf", n |-> 0, d |-> 1]

NInf == [k |-> "ninf", n |-> 0, d |-> 1]

FLt(a, b) ==
    IF a.k = "nan" \/ b.k = "nan" THEN FALSE
    ELSE IF a.k = "fin" /\ b.k = "fin" THEN a.n * b.d < b.n * a.d
    ELSE IF a.k = "ninf" THEN b.k # "ninf"
    ELSE IF a.k = "pinf" THEN FALSE
    ELSE b.k = "pinf"

FGt(a, b) == FLt(b, a)

FEq(a, b) == a.k # "nan" /\ b.k # "nan" /\ a = b

FLe(a, b) == FLt(a, b) \/ FEq(a, b)

FGe(a, b) == FLe(b, a)

FNeg(a) ==
    IF a.k = "fin" THEN [k |-> "fin", n |-> -a.n, d |-> a.d]
    ELSE IF a.k = "pinf" THEN NInf
    ELSE IF a.k = "ninf" THEN PInf
    ELSE NaN

FAdd(a, b) ==
    IF a.k = "nan" \/ b.k = "nan" THEN NaN
    ELSE IF a.k = "fin" /\ b.k = "fin" THEN Fin(a.n * b.d + b.n * a.d, a.d * b.d)
    ELSE IF a.k = "fin" THEN b
    ELSE IF b.k = "fin" \/ a.k = b.k THEN a
    ELSE NaN

FSub(a, b) == FAdd(a, FNeg(b))

\* Python's builtin min(a, b) / max(a, b): the first argument unless the
\* second compares strictly below / above it.
PyMin(a, b) == IF FLt(b, a) THEN b ELSE a

PyMax(a, b) == IF FGt(b, a) THEN b ELSE a

(***************************************************************************)
(* The price table: its column names and its bars in index order.          *)
(***************************************************************************)
BaseCols == {"open", "high", "low", "close", "volume"}

Bar(t, o, h, l, c, v) == [t |-> t, open |-> o, high |-> h, low |-> l, close |-> c, volume |-> v]

Frame(bars) == [cols |-> BaseCols, bars |-> bars]

Column(frame, name) == [i \in 1..Len(frame.bars) |-> frame.bars[i][name]]

NoCall == [status |-> "none"]

(***************************************************************************)
(* Outcomes of a call: a returned value or a raised Python exception.      *)
(***************************************************************************)
Ret(v) == [status |-> "ok", value |-> v]

Raise(e) == [status |-> "raise", error |-> e]

\* A call whose body is still executing.
Running == [status |-> "running"]

\* The call is over: the caller holds the table as the call left it and is
\* free to make the next call.
Return ==
    /\ op # "idle"
    /\ res.status \in {"ok", "raise"}
    /\ op' = "idle"
    /\ arg' = NoCall
    /\ loc' = NoCall
    /\ res' = NoCall
    /\ UNCHANGED df

(***************************************************************************)
(* bias.py : the classifiers' output domains and the overall combiner.     *)
(***************************************************************************)
TrendBiases == {"bullish_trend", "bearish_trend", "overbought_trend", "oversold_trend", "neutral_trend"}

MomentumBiases == {"bullish_momentum", "bearish_momentum", "neutral_momentum"}

VolumeBiases == {"bullish_volume", "bearish_volume", "neutral_volume"}

_combine_bias_swapped(trend, momentum, volume) ==
    IF trend = "bullish_trend" /\ momentum = "bullish_momentum" /\ volume = "bullish_volume" THEN "strong_bullish"
    ELSE IF trend = "bearish_trend" /\ momentum = "bearish_momentum" /\ volume = "bearish_volume" THEN "strong_bearish"
    ELSE IF trend = "bullish_trend" THEN "weak_bullish"
    ELSE IF trend = "bearish_trend" THEN "weak_bearish"
    ELSE IF trend = "bullish_trend" /\ momentum = "bullish_momentum" THEN "moderate_bullish"
    ELSE IF trend = "bearish_trend" /\ momentum = "bearish_momentum" THEN "moderate_bearish"
    ELSE IF momentum = "bullish_momentum" THEN "momentum_bullish"
    ELSE IF momentum = "bearish_momentum" THEN "momentum_bearish"
    ELSE "neutral_bias"

_combine_bias(trend, momentum, volume) ==
    IF trend = "bullish_trend" /\ momentum = "bullish_momentum" /\ volume = "bullish_volume" THEN "strong_bullish"
    ELSE IF trend = "bearish_trend" /\ momentum = "bearish_momentum" /\ volume = "bearish_volume" THEN "strong_bearish"
    ELSE IF trend = "bullish_trend" /\ momentum = "bullish_momentum" THEN "moderate_bullish"
    ELSE IF trend = "bearish_trend" /\ momentum = "bearish_momentum" THEN "moderate_bearish"
    ELSE IF trend = "bullish_trend" THEN "weak_bullish"
    ELSE IF trend = "bearish_trend" THEN "weak_bearish"
    ELSE IF momentum = "bullish_momentum" THEN "momentum_bullish"
    ELSE IF momentum = "bearish_momentum" THEN "momentum_bearish"
    ELSE "neutral_bias"

CombineBias ==
    /\ op = "idle"
    /\ \E t \in TrendBiases, m \in MomentumBiases, v \in VolumeBiases :
        /\ op' = "_combine_bias"
        /\ arg' = [trend |-> t, momentum |-> m, volume |-> v]
        /\ loc' = NoCall
        /\ res' = Ret(_combine_bias(t, m, v))
        /\ UNCHANGED df

(***************************************************************************)
(* bias.py : crossover scans and the trend decision table.                 *)
(***************************************************************************)
RECURSIVE SumTo(_, _, _)
SumTo(s, lo, hi) == IF hi < lo THEN 0 ELSE s[hi] + SumTo(s, lo, hi - 1)

\* ta.sma_indicator(close, period): rolling mean, undefined during warm-up.
SMA(close, period) ==
    [i \in 1..Len(close) |->
        IF i < period THEN NaN ELSE Fin(SumTo(close, i - period + 1, i), period)]

\* The scan as it would be if each bar were compared with the average of its
\* own index instead of the previous one.
RECURSIVE SmaCrossovers_sameIndex(_, _, _)
SmaCrossovers_sameIndex(close, sma, i) ==
    IF i < 2 THEN <<>>
    ELSE LET before == SmaCrossovers_sameIndex(close, sma, i - 1)
         IN IF FGt(Num(close[i]), sma[i]) /\ FLe(Num(close[i-1]), sma[i])
            THEN Append(before, "bullish")
            ELSE IF FLt(Num(close[i]), sma[i]) /\ FGe(Num(close[i-1]), sma[i])
            THEN Append(before, "bearish")
            ELSE before

\* The `crossovers` list of _check_sma_crossover after the loop has visited
\* the (1-based) indices 2..i; index i here is Python's index i-1.
RECURSIVE SmaCrossovers(_, _, _)
SmaCrossovers(close, sma, i) ==
    IF i < 2 THEN <<>>
    ELSE LET before == SmaCrossovers(close, sma, i - 1)
         IN IF FGt(Num(close[i]), sma[i-1]) /\ FLe(Num(close[i-1]), sma[i-1])
            THEN Append(before, "bullish")
            ELSE IF FLt(Num(close[i]), sma[i-1]) /\ FGe(Num(close[i-1]), sma[i-1])
            THEN Append(before, "bearish")
            ELSE before

\* The first recorded event instead of the last.
LastOrNeutral_first(crossovers) ==
    IF Len(crossovers) > 0 THEN crossovers[1] ELSE "neutral"

\* crossovers[-1] if len(crossovers) > 0, else 'neutral'
LastOrNeutral(crossovers) ==
    IF Len(crossovers) > 0 THEN crossovers[Len(crossovers)] ELSE "neutral"

_check_sma_crossover(frame, sma) ==
    LastOrNeutral(SmaCrossovers(Column(frame, "close"), sma, Len(frame.bars)))

RECURSIVE EmaCrossovers(_, _, _)
EmaCrossovers(ema_fast, ema_slow, i) ==
    IF i < 2 THEN <<>>
    ELSE LET before == EmaCrossovers(ema_fast, ema_slow, i - 1)
         IN IF FGt(ema_fast[i], ema_slow[i-1]) /\ FLe(ema_fast[i-1], ema_slow[i-1])
            THEN Append(before, "bullish")
            ELSE IF FLt(ema_fast[i], ema_slow[i-1]) /\ FGe(ema_fast[i-1], ema_slow[i-1])
            THEN Append(before, "bearish")
            ELSE before

_check_ema_crossover(frame, ema_fast, ema_slow) ==
    LastOrNeutral(EmaCrossovers(ema_fast, ema_slow, Len(frame.bars)))

TrendTable(sma_crossover, ema_crossover) ==
    IF sma_crossover = "bullish" /\ ema_crossover = "bullish" THEN "bullish_trend"
    ELSE IF sma_crossover = "bearish" /\ ema_crossover = "bearish" THEN "bearish_trend"
    ELSE IF sma_crossover = "bullish" /\ ema_crossover = "bearish" THEN "overbought_trend"
    ELSE IF sma_crossover = "bearish" /\ ema_crossover = "bullish" THEN "oversold_trend"
    ELSE "neutral_trend"

_detect_trend_bias(frame, sma, ema_fast, ema_slow) ==
    TrendTable(_check_sma_crossover(frame, sma), _check_ema_crossover(frame, ema_fast, ema_slow))

(***************************************************************************)
(* Inputs of the bias calls: short close series of every shape, and the    *)
(* 10-bar rising series (a start, a step, a second step from bar k on).    *)
(***************************************************************************)
FlatBars(close) == [i \in 1..Len(close) |-> Bar(i, close[i], close[i], close[i], close[i], 1)]

ShortCloses == UNION {[1..n -> 1..MaxPrice] : n \in 0..MaxLen}

Min2(a, b) == IF a < b THEN a ELSE b

Max2(a, b) == IF a > b THEN a ELSE b

Ramp(base, s1, s2, k) == [i \in 1..10 |-> base + s1 * Min2(i - 1, k) + s2 * Max2(i - 1 - k, 0)]

RampCloses == {Ramp(b, s1, s2, k) : b \in 1..MaxPrice, s1 \in 1..MaxStep, s2 \in 1..MaxStep, k \in 0..9}

StrictlyIncreasing(close) == \A i \in 2..Len(close) : close[i-1] < close[i]

BiasFrames == {Frame(FlatBars(c)) : c \in ShortCloses \cup RampCloses}

\* Moving-average series of length n: an undefined warm-up prefix of w bars,
\* then values on two levels.
EmaLevels == {1, 2}

WarmSeries(n) ==
    UNION {{[i \in 1..n |-> IF i <= w THEN NaN ELSE Num(f[i])] : f \in [1..n -> EmaLevels]} : w \in 0..n}

EmaPairs(n) == IF n <= MaxLen THEN WarmSeries(n) \X WarmSeries(n) ELSE {}

\* A fast average that steps across a constant slow one at bar k + 1, in
\* either direction, and the pair that never leaves its warm-up.
StepSeries(n, lo, hi, k) == [i \in 1..n |-> IF i <= k THEN Num(lo) ELSE Num(hi)]

StepPairs(n) ==
    {<<StepSeries(n, 1, 3, k), StepSeries(n, 2, 2, 0)>> : k \in 0..n}
    \cup {<<StepSeries(n, 3, 1, k), StepSeries(n, 2, 2, 0)>> : k \in 0..n}
    \cup {<<[i \in 1..n |-> NaN], [i \in 1..n |-> NaN]>>}

CheckSmaCrossover ==
    /\ op = "idle"
    /\ \E period \in 1..MaxPeriod :
        LET sma == SMA(Column(df, "close"), period)
        IN /\ op' = "_check_sma_crossover"
           /\ arg' = [period |-> period]
           /\ loc' = [crossovers |-> SmaCrossovers(Column(df, "close"), sma, Len(df.bars))]
           /\ res' = Ret(_check_sma_crossover(df, sma))
           /\ UNCHANGED df

CheckEmaCrossover ==
    /\ op = "idle"
    /\ \E pair \in EmaPairs(Len(df.bars)) \cup StepPairs(Len(df.bars)) :
        /\ op' = "_check_ema_crossover"
        /\ arg' = [ema_fast |-> pair[1], ema_slow |-> pair[2]]
        /\ loc' = [crossovers |-> EmaCrossovers(pair[1], pair[2], Len(df.bars))]
        /\ res' = Ret(_check_ema_crossover(df, pair[1], pair[2]))
        /\ UNCHANGED df

DetectTrendBias ==
    /\ op = "idle"
    /\ \E period \in 1..MaxPeriod, pair \in StepPairs(Len(df.bars)) :
        LET sma == SMA(Column(df, "close"), period)
        IN /\ op' = "_detect_trend_bias"
           /\ arg' = [period |-> period, ema_fast |-> pair[1], ema_slow |-> pair[2]]
           /\ loc' = [sma_crossovers |-> SmaCrossovers(Column(df, "close"), sma, Len(df.bars)),
                      sma_crossover |-> _check_sma_crossover(df, sma),
                      ema_crossover |-> _check_ema_crossover(df, pair[1], pair[2])]
           /\ res' = Ret(_detect_trend_bias(df, sma, pair[1], pair[2]))
           /\ UNCHANGED df

InitBias ==
    /\ df \in BiasFrames
    /\ op = "idle"
    /\ arg = NoCall
    /\ loc = NoCall
    /\ res = NoCall

NextBias == CombineBias \/ CheckSmaCrossover \/ CheckEmaCrossover \/ DetectTrendBias \/ Return

SpecBias == InitBias /\ [][NextBias]_vars

(***************************************************************************)
(* levels.py : candidate (price, kind) pairs and their combination.        *)
(***************************************************************************)
MaxLevelPrice == 2

MaxFibLevels == 1

\* The level kinds in Python's string order, which is the order in which
\* list.sort() puts tuples of equal price.
KindOrder ==
    <<"dynamic", "fib_38.2", "fib_50", "fib_61.8", "resistance", "support", "volume_resistance", "volume_support">>

KindRank(kind) == CHOOSE r \in 1..Len(KindOrder) : KindOrder[r] = kind

TupleLt(a, b) == a[1] < b[1] \/ (a[1] = b[1] /\ KindRank(a[2]) < KindRank(b[2]))

\* A comparison by price alone, as a sort keyed on the price would make.
PriceLt(a, b) == a[1] < b[1]

RECURSIVE InsertByPrice(_, _)
InsertByPrice(sorted, x) ==
    IF sorted = <<>> THEN <<x>>
    ELSE IF PriceLt(x, sorted[Len(sorted)])
         THEN Append(InsertByPrice(SubSeq(sorted, 1, Len(sorted) - 1), x), sorted[Len(sorted)])
         ELSE Append(sorted, x)

RECURSIVE SortTuples_byPriceOnly(_)
SortTuples_byPriceOnly(list) ==
    IF list = <<>> THEN <<>>
    ELSE InsertByPrice(SortTuples_byPriceOnly(SubSeq(list, 1, Len(list) - 1)), list[Len(list)])

\* list.sort(): a stable sort of the list of tuples.
RECURSIVE InsertSorted(_, _)
InsertSorted(sorted, x) ==
    IF sorted = <<>> THEN <<x>>
    ELSE IF TupleLt(x, sorted[Len(sorted)])
         THEN Append(InsertSorted(SubSeq(sorted, 1, Len(sorted) - 1), x), sorted[Len(sorted)])
         ELSE Append(sorted, x)

RECURSIVE SortTuples(_)
SortTuples(list) ==
    IF list = <<>> THEN <<>>
    ELSE InsertSorted(SortTuples(SubSeq(list, 1, Len(list) - 1)), list[Len(list)])

\* The `unique_levels` loop: the first occurrence of every tuple, in order.
RECURSIVE UniqueLevels(_)
UniqueLevels(all_levels) ==
    IF all_levels = <<>> THEN <<>>
    ELSE LET before == UniqueLevels(SubSeq(all_levels, 1, Len(all_levels) - 1))
             level == all_levels[Len(all_levels)]
         IN IF \E j \in 1..Len(before) : before[j] = level THEN before ELSE Append(before, level)

\* The `result` dictionary after `result[price] = level_type` for every
\* tuple of the list in order: the last assignment to a key stays.
BuildDict(list) ==
    [price \in {list[j][1] : j \in 1..Len(list)} |->
        LET last == CHOOSE j \in 1..Len(list) :
                        list[j][1] = price /\ \A q \in (j + 1)..Len(list) : list[q][1] # price
        IN list[last][2]]

\* The combination without the sort of the deduplicated tuples.
_combine_levels_unsorted(levels, fib_levels, volume_levels) ==
    BuildDict(UniqueLevels(levels \o fib_levels \o volume_levels))

_combine_levels(levels, fib_levels, volume_levels) ==
    BuildDict(SortTuples(UniqueLevels(levels \o fib_levels \o volume_levels)))

_calculate_support_resistance(swing_highs, swing_lows, sma_last) ==
    SortTuples([j \in 1..Len(swing_highs) |-> <<swing_highs[j], "resistance">>]
               \o [j \in 1..Len(swing_lows) |-> <<swing_lows[j], "support">>]
               \o << <<sma_last, "dynamic">> >>)

LevelPrices == 1..MaxLevelPrice

SeqsUpTo(S, n) == UNION {[1..m -> S] : m \in 0..n}

FibKinds == {"fib_38.2", "fib_50", "fib_61.8", "resistance"}

VolumeKinds == {"volume_resistance", "volume_support"}

CombineLevels ==
    /\ op = "idle"
    /\ \E swing_highs \in SeqsUpTo(LevelPrices, 1), swing_lows \in SeqsUpTo(LevelPrices, 1),
          sma_last \in LevelPrices,
          fib_levels \in SeqsUpTo(LevelPrices \X FibKinds, MaxFibLevels),
          volume_levels \in SeqsUpTo(LevelPrices \X VolumeKinds, 1) :
        LET levels == _calculate_support_resistance(swing_highs, swing_lows, sma_last)
        IN /\ op' = "_combine_levels"
           /\ arg' = [levels |-> levels, fib_levels |-> fib_levels, volume_levels |-> volume_levels]
           /\ loc' = [unique_levels |-> UniqueLevels(levels \o fib_levels \o volume_levels)]
           /\ res' = Ret(_combine_levels(levels, fib_levels, volume_levels))
           /\ UNCHANGED df

InitLevels ==
    /\ df = Frame(<<>>)
    /\ op = "idle"
    /\ arg = NoCall
    /\ loc = NoCall
    /\ res = NoCall

NextLevels == CombineLevels \/ Return

SpecLevels == InitLevels /\ [][NextLevels]_vars

(***************************************************************************)
(* levels.py : the Fibonacci detector.  Its for loop iterates over the     *)
(* list it appends to, so the body is modelled one iteration per step; the *)
(* list grows until memory is exhausted, which MaxFibList stands for.  The *)
(* table has the default integer index (idxmax() labels are positions).    *)
(***************************************************************************)
MaxFibList == 9

MaxOf(S) == CHOOSE x \in S : \A y \in S : y <= x

MinOf(S) == CHOOSE x \in S : \A y \in S : x <= y

\* df['low'].iloc[low_idx] + ratio * high_low_diff, ratio in thousandths.
FibPrice(bars, ratio) ==
    LET high == MaxOf({bars[j].high : j \in 1..Len(bars)})
        low == MinOf({bars[j].low : j \in 1..Len(bars)})
    IN Fin(1000 * low + ratio * (high - low), 1000)

\* fib_levels after the three appends that precede the loop.
FibStart(bars) ==
    << <<FibPrice(bars, 382), "fib_38.2">>, <<FibPrice(bars, 500), "fib_50">>, <<FibPrice(bars, 618), "fib_61.8">> >>

FibFrames == {Frame(FlatBars(c)) : c \in ShortCloses}

\* The call up to the loop: idxmax() of an empty column raises ValueError.
CalculateFibonacciLevels ==
    /\ op = "idle"
    /\ op' = "_calculate_fibonacci_levels"
    /\ arg' = NoCall
    /\ IF df.bars = <<>>
       THEN /\ loc' = [fib_levels |-> <<>>, position |-> 1]
            /\ res' = Raise("ValueError")
       ELSE /\ loc' = [fib_levels |-> FibStart(df.bars), position |-> 1]
            /\ res' = Running
    /\ UNCHANGED df

\* One turn of `for level in fib_levels`: the iterator reads the list at its
\* position, the body appends to the same list; the loop ends when the
\* position passes the end of the list.
FibonacciLoop ==
    /\ op = "_calculate_fibonacci_levels"
    /\ res = Running
    /\ IF loc.position > Len(loc.fib_levels)
       THEN /\ res' = Ret(loc.fib_levels)
            /\ UNCHANGED loc
       ELSE IF Len(loc.fib_levels) >= MaxFibList
       THEN /\ res' = Raise("MemoryError")
            /\ UNCHANGED loc
       ELSE /\ loc' = [fib_levels |-> Append(loc.fib_levels, <<loc.fib_levels[loc.position][1], "resistance">>),
                       position |-> loc.position + 1]
            /\ UNCHANGED res
    /\ UNCHANGED <<df, op, arg>>

InitFib ==
    /\ df \in FibFrames
    /\ op = "idle"
    /\ arg = NoCall
    /\ loc = NoCall
    /\ res = NoCall

NextFib == CalculateFibonacciLevels \/ FibonacciLoop \/ Return

SpecFib == InitFib /\ [][NextFib]_vars

(***************************************************************************)
(* volume_profile.py : the session slice, its time intervals, the volume   *)
(* per interval, the value area and the ranked profile.                    *)
(***************************************************************************)
MaxTime == 3

MaxVolume == 1

MaxRows == 2

RECURSIVE SumSeq(_)
SumSeq(seq) == IF seq = <<>> THEN 0 ELSE seq[Len(seq)] + SumSeq(SubSeq(seq, 1, Len(seq) - 1))

\* numpy scalar true division: a zero divisor gives inf or nan, not an error.
NumpyDiv(a, b) ==
    IF a.k # "fin" \/ b.k # "fin" THEN NaN
    ELSE IF b.n = 0 THEN (IF a.n > 0 THEN PInf ELSE IF a.n < 0 THEN NInf ELSE NaN)
    ELSE IF b.n > 0 THEN Fin(a.n * b.d, a.d * b.n)
    ELSE Fin(-(a.n * b.d), a.d * (-b.n))

FMul(a, b) ==
    IF a.k = "fin" /\ b.k = "fin" THEN Fin(a.n * b.n, a.d * b.d) ELSE NaN

\* df[(df.index >= start_time) & (df.index <= end_time)].copy()
SessionSlice(frame, start_time, end_time) ==
    SelectSeq(frame.bars, LAMBDA bar : bar.t >= start_time /\ bar.t <= end_time)

\* The interval ends are held as exact fractions; the rounding of the
\* float additions is not represented.
_calculate_time_intervals(bars, rows) ==
    LET start_time == bars[1].t
        end_time == bars[Len(bars)].t
        duration == Fin(end_time - start_time, rows)
    IN [j \in 1..rows |->
           LET interval_start == FAdd(Num(start_time), FMul(Num(j - 1), duration))
           IN <<interval_start, FAdd(interval_start, duration)>>]

\* df[(df.index >= start) & (df.index <= end)]
IntervalBars(bars, interval) ==
    SelectSeq(bars, LAMBDA bar : FGe(Num(bar.t), interval[1]) /\ FLe(Num(bar.t), interval[2]))

VolumeSum(bars) == SumSeq([j \in 1..Len(bars) |-> bars[j].volume])

\* Keyed time_interval_0 .. time_interval_{rows-1}; held here at 1..rows.
_calculate_volume_distribution(bars, time_intervals) ==
    [j \in 1..Len(time_intervals) |-> VolumeSum(IntervalBars(bars, time_intervals[j]))]

_calculate_value_area(bars) ==
    SumSeq([j \in 1..Len(bars) |-> bars[j].close * VolumeSum(SubSeq(bars, 1, j))])

_calculate_value_area_percent(bars) ==
    FMul(NumpyDiv(Num(_calculate_value_area(bars)), Num(VolumeSum(bars))), Num(100))

\* sorted([(vol, idx)], reverse=True): by volume, then by key, descending.
\* The keys of fewer than ten rows compare as their indices do.
RankOf(volume_distribution, j) ==
    1 + Cardinality({q \in DOMAIN volume_distribution :
                        \/ volume_distribution[q] > volume_distribution[j]
                        \/ (volume_distribution[q] = volume_distribution[j] /\ q > j)})

_calculate_volume_profile(bars, time_intervals, value_area_percent) ==
    LET volume_distribution == _calculate_volume_distribution(bars, time_intervals)
        total == SumSeq(volume_distribution)
    IN [profile |->
           [r \in 1..Len(volume_distribution) |->
               LET j == CHOOSE q \in DOMAIN volume_distribution : RankOf(volume_distribution, q) = r
               IN [volume |-> volume_distribution[j],
                   percentage |-> FMul(NumpyDiv(Num(volume_distribution[j]), Num(total)), Num(100)),
                   time_interval |-> j]],
        value_area_info |->
           [total_value_area |-> _calculate_value_area(bars),
            percentage_of_value_area |-> value_area_percent]]

compute_volume_profile(frame, start_time, end_time, rows) ==
    LET session_df == SessionSlice(frame, start_time, end_time)
    IN IF session_df = <<>> THEN Raise("IndexError")
       ELSE LET time_intervals == _calculate_time_intervals(session_df, rows)
                value_area_percent == _calculate_value_area_percent(session_df)
            IN Ret([time_intervals |-> time_intervals,
                    volume_distribution |-> _calculate_volume_distribution(session_df, time_intervals),
                    value_area_percent |-> value_area_percent,
                    volume_profile |-> _calculate_volume_profile(session_df, time_intervals, value_area_percent)])

\* Tables of the volume-profile calls: bars at increasing integer times, a
\* flat price, any volumes.
TimedBars(times, price, volume) ==
    LET n == Cardinality(times)
        at == [j \in 1..n |-> CHOOSE t \in times : Cardinality({u \in times : u < t}) = j - 1]
    IN [j \in 1..n |-> Bar(at[j], price, price, price, price, volume[at[j]])]

VolumeFrames ==
    {Frame(TimedBars(times, price, volume)) :
        times \in SUBSET (0..MaxTime), price \in 1..MaxPrice, volume \in [0..MaxTime -> 0..MaxVolume]}

ComputeVolumeProfile ==
    /\ op = "idle"
    /\ \E start_time \in 0..MaxTime, end_time \in 0..MaxTime, rows \in 1..MaxRows :
        /\ start_time <= end_time
        /\ op' = "compute_volume_profile"
        /\ arg' = [start_time |-> start_time, end_time |-> end_time, rows |-> rows]
        /\ loc' = [session_df |-> SessionSlice(df, start_time, end_time)]
        /\ res' = compute_volume_profile(df, start_time, end_time, rows)
        /\ UNCHANGED df

InitVolume ==
    /\ df \in VolumeFrames
    /\ op = "idle"
    /\ arg = NoCall
    /\ loc = NoCall
    /\ res = NoCall

NextVolume == ComputeVolumeProfile \/ Return

SpecVolume == InitVolume /\ [][NextVolume]_vars

(***************************************************************************)
(* stop_loss.py : ATR, stop-loss and take-profit maps, risk/reward.        *)
(***************************************************************************)
ATR_PERIOD == 14

MaxBars == 16

MaxSpikes == 2

MaxGrid == 2

\* tr after the three np.maximum steps; shift(1) leaves the first bar's
\* previous close undefined and np.maximum propagates the NaN.
TrueRange(bars, j) ==
    IF j = 1 THEN NaN
    ELSE Num(Max2(Max2(Max2(bars[j].high - bars[j].low, 0),
                       Abs(bars[j].high - bars[j - 1].close)),
                  Abs(bars[j].low - bars[j - 1].close)))

\* tr.rolling(window=period).sum() at index j: defined when the window is
\* full and holds no NaN.
RollingSum(bars, period, j) ==
    IF j < period \/ j - period + 1 < 2 THEN NaN
    ELSE Num(SumSeq([q \in 1..period |-> TrueRange(bars, j - period + q).n]))

\* np.mean of a series: the mean of its defined entries, NaN if none.
MeanOfDefined(series) ==
    LET defined == SelectSeq(series, LAMBDA x : x.k = "fin")
    IN IF defined = <<>> THEN NaN
       ELSE Fin(SumSeq([q \in 1..Len(defined) |-> defined[q].n]), Len(defined))

\* The outcome of _calculate_atr: the value returned (or the error that
\* leaves the function) and the exception caught and printed on the way.
_calculate_atr(bars, period) ==
    IF period < 0
    THEN [caught |-> "ValueError", out |-> Raise("UnboundLocalError")]
    ELSE LET atr == MeanOfDefined([j \in 1..Len(bars) |-> RollingSum(bars, period, j)])
         IN IF period <= 0 \/ Len(bars) < period
            THEN [caught |-> "ValueError", out |-> Ret(atr)]
            ELSE [caught |-> "none", out |-> Ret(atr)]

\* levels = list(price_levels.keys()); levels.sort()
SortedKeys(price_levels) ==
    LET keys == DOMAIN price_levels
    IN [j \in 1..Cardinality(keys) |-> CHOOSE p \in keys : Cardinality({q \in keys : q < p}) = j - 1]

IndexOf(levels, price) == CHOOSE j \in 1..Len(levels) : levels[j] = price

\* The stop-loss loop with the neighbour test made on the kind resistance.
StopLossAt_resistanceTest(price_levels, levels, j, atr) ==
    IF j > 1 /\ price_levels[levels[j - 1]] = "resistance"
    THEN PyMin(FSub(Num(levels[j]), atr), FSub(Num(levels[j - 1]), atr))
    ELSE FSub(Num(levels[j]), atr)

StopLossAt(price_levels, levels, j, atr) ==
    IF j > 1 /\ price_levels[levels[j - 1]] = "support"
    THEN PyMin(FSub(Num(levels[j]), atr), FSub(Num(levels[j - 1]), atr))
    ELSE FSub(Num(levels[j]), atr)

calculate_stop_loss(bars, price_levels) ==
    LET levels == SortedKeys(price_levels)
        atr == _calculate_atr(bars, ATR_PERIOD).out
    IN IF atr.status = "raise" THEN atr
       ELSE Ret([price \in DOMAIN price_levels |->
                    StopLossAt(price_levels, levels, IndexOf(levels, price), atr.value)])

\* The take-profit loop without the test of the higher neighbour.
TakeProfitAt_ownLevel(price_levels, levels, j, atr) == FAdd(Num(levels[j]), atr)

TakeProfitAt(price_levels, levels, j, atr) ==
    IF j < Len(levels) /\ price_levels[levels[j + 1]] = "resistance"
    THEN PyMax(FAdd(Num(levels[j]), atr), FAdd(Num(levels[j + 1]), atr))
    ELSE FAdd(Num(levels[j]), atr)

calculate_take_profit(bars, price_levels) ==
    LET levels == SortedKeys(price_levels)
        atr == _calculate_atr(bars, ATR_PERIOD).out
    IN IF atr.status = "raise" THEN atr
       ELSE Ret([price \in DOMAIN price_levels |->
                    TakeProfitAt(price_levels, levels, IndexOf(levels, price), atr.value)])

FirstOfKind(price_levels, levels, kind) ==
    IF \E j \in 1..Len(levels) : price_levels[levels[j]] = kind
    THEN CHOOSE j \in 1..Len(levels) :
            price_levels[levels[j]] = kind /\ \A q \in 1..(j - 1) : price_levels[levels[q]] # kind
    ELSE 0

\* reward / risk: numpy float keys make the quotient a numpy division (inf or
\* nan on a zero divisor); Python numbers raise ZeroDivisionError.
Quotient(reward, risk, numpy_reward) ==
    IF risk.n = 0 /\ ~numpy_reward THEN Raise("ZeroDivisionError")
    ELSE Ret(NumpyDiv(reward, risk))

Clamp(ratio) == IF FLt(ratio, Num(1)) THEN Num(1) ELSE ratio

\* The returned record with the risk written into its ratio field.
RiskRewardRecord_ratioIsRisk(risk, reward, ratio) ==
    [risk |-> risk, reward |-> reward, ratio |-> risk]

RiskRewardRecord(risk, reward, ratio) ==
    [risk |-> risk, reward |-> reward, ratio |-> ratio]

\* calculate_risk_reward, statement by statement.  `atr` is a local name
\* assigned only after both loops, so the risk expression of the first loop,
\* which reads it, raises UnboundLocalError whenever a support level exists.
calculate_risk_reward(bars, price_levels, numpy_keys) ==
    LET levels == SortedKeys(price_levels)
        support == FirstOfKind(price_levels, levels, "support")
        resistance == FirstOfKind(price_levels, levels, "resistance")
    IN IF support # 0 THEN Raise("UnboundLocalError")
       ELSE IF resistance # 0 /\ resistance = Len(levels) THEN Raise("IndexError")
       ELSE LET risk == Num(0)
                reward == IF resistance # 0 THEN Num(levels[resistance + 1] - levels[resistance]) ELSE Num(0)
                atr == _calculate_atr(bars, ATR_PERIOD).out
            IN IF atr.status = "raise" THEN atr
               ELSE LET quotient == Quotient(reward, risk, numpy_keys /\ resistance # 0)
                    IN IF quotient.status = "raise" THEN quotient
                       ELSE Ret(RiskRewardRecord(risk, reward, Clamp(quotient.value)))

\* TradingEngine._calculate_risk_parameters: the three calls in order; an
\* exception of any of them leaves the method.
_calculate_risk_parameters(bars, price_levels, numpy_keys) ==
    LET stop_loss == calculate_stop_loss(bars, price_levels)
        take_profit == calculate_take_profit(bars, price_levels)
        risk_reward == calculate_risk_reward(bars, price_levels, numpy_keys)
    IN IF stop_loss.status = "raise" THEN stop_loss
       ELSE IF take_profit.status = "raise" THEN take_profit
       ELSE IF risk_reward.status = "raise" THEN risk_reward
       ELSE Ret([stop_loss |-> stop_loss.value, take_profit |-> take_profit.value,
                 risk_reward |-> risk_reward.value])

\* Tables of the risk calls: n bars at a flat price, the bars 2..1+spikes
\* with a high one above it.
SpikeBars(n, spikes) ==
    [j \in 1..n |-> Bar(j, 100, IF j >= 2 /\ j <= 1 + spikes THEN 101 ELSE 100, 100, 100, 1)]

RiskFrames == {Frame(SpikeBars(n, spikes)) : n \in 0..MaxBars, spikes \in 0..MaxSpikes}

RiskPrices == {100 + 5 * g : g \in 0..MaxGrid}

RiskKinds == {"support", "resistance", "dynamic"}

RiskLevelMaps == UNION {[keys -> RiskKinds] : keys \in SUBSET RiskPrices}

CalculateAtr ==
    /\ op = "idle"
    /\ \E period \in {-1, ATR_PERIOD} :
        /\ op' = "_calculate_atr"
        /\ arg' = [period |-> period]
        /\ loc' = [atr |-> _calculate_atr(df.bars, period)]
        /\ res' = _calculate_atr(df.bars, period).out
        /\ UNCHANGED df

CalculateStopLoss ==
    /\ op = "idle"
    /\ \E price_levels \in RiskLevelMaps :
        /\ op' = "calculate_stop_loss"
        /\ arg' = [price_levels |-> price_levels]
        /\ loc' = [atr |-> _calculate_atr(df.bars, ATR_PERIOD)]
        /\ res' = calculate_stop_loss(df.bars, price_levels)
        /\ UNCHANGED df

CalculateTakeProfit ==
    /\ op = "idle"
    /\ \E price_levels \in RiskLevelMaps :
        /\ op' = "calculate_take_profit"
        /\ arg' = [price_levels |-> price_levels]
        /\ loc' = [atr |-> _calculate_atr(df.bars, ATR_PERIOD)]
        /\ res' = calculate_take_profit(df.bars, price_levels)
        /\ UNCHANGED df

CalculateRiskReward ==
    /\ op = "idle"
    /\ \E price_levels \in RiskLevelMaps, numpy_keys \in BOOLEAN :
        /\ op' = "calculate_risk_reward"
        /\ arg' = [price_levels |-> price_levels, numpy_keys |-> numpy_keys]
        /\ loc' = [atr |-> _calculate_atr(df.bars, ATR_PERIOD)]
        /\ res' = calculate_risk_reward(df.bars, price_levels, numpy_keys)
        /\ UNCHANGED df

CalculateRiskParameters ==
    /\ op = "idle"
    /\ \E price_levels \in RiskLevelMaps, numpy_keys \in BOOLEAN :
        /\ op' = "_calculate_risk_parameters"
        /\ arg' = [price_levels |-> price_levels, numpy_keys |-> numpy_keys]
        /\ loc' = [atr |-> _calculate_atr(df.bars, ATR_PERIOD)]
        /\ res' = _calculate_risk_parameters(df.bars, price_levels, numpy_keys)
        /\ UNCHANGED df

InitRisk ==
    /\ df \in RiskFrames
    /\ op = "idle"
    /\ arg = NoCall
    /\ loc = NoCall
    /\ res = NoCall

NextRisk ==
    \/ CalculateAtr
    \/ CalculateStopLoss
    \/ CalculateTakeProfit
    \/ CalculateRiskReward
    \/ CalculateRiskParameters
    \/ Return

SpecRisk == InitRisk /\ [][NextRisk]_vars

(***************************************************************************)
(* indicators.py, setup.py, trading_engine.py : the stages that work on    *)
(* the caller's table, and the two pipelines.  The ta library is not part  *)
(* of the repository: a call of it either succeeds or raises.              *)
(***************************************************************************)
TaCols == {"sma", "ema_fast", "ema_slow", "rsi", "macd", "signal", "macd_hist", "tr", "atr"}

IndicatorKeys ==
    BaseCols \cup TaCols \cup {"vwap", "swing_highs", "swing_lows", "typical_price"}

WithCols(frame, names) == [frame EXCEPT !.cols = @ \cup names]

\* compute_indicators: the table as the call leaves it and the outcome.
\*  - line 21 adds typical_price before the first ta call;
\*  - the vwap column is written only for a non-empty table;
\*  - _find_swing_highs writes ma5 and returns the qualifying highs, fewer
\*    than the bars of a non-empty table (the first bar never qualifies), so
\*    assigning them to a column raises ValueError;
\*  - the returned dict reads df['vwap'], absent from an empty table unless
\*    an earlier call left it there.
compute_indicators(frame, ta_ok) ==
    LET n == Len(frame.bars)
        afterTypical == WithCols(frame, {"typical_price"})
        afterTa == WithCols(afterTypical, TaCols)
        afterVwap == IF n > 0 THEN WithCols(afterTa, {"vwap"}) ELSE afterTa
        afterMa5 == WithCols(afterVwap, {"ma5"})
        afterSwings == WithCols(afterMa5, {"swing_highs", "swing_lows"})
    IN IF ~ta_ok THEN [frame |-> afterTypical, out |-> Raise("TaError")]
       ELSE IF n > 0 THEN [frame |-> afterMa5, out |-> Raise("ValueError")]
       ELSE IF "vwap" \notin afterSwings.cols THEN [frame |-> afterSwings, out |-> Raise("KeyError")]
       ELSE [frame |-> afterSwings, out |-> Ret([keys |-> IndicatorKeys, length |-> n])]

\* calculate_levels and detect_bias pass ten positional arguments to
\* compute_indicators, which takes nine: the call raises TypeError before
\* its body runs.
calculate_levels(frame) == [frame |-> frame, out |-> Raise("TypeError")]

detect_bias(frame) == [frame |-> frame, out |-> Raise("TypeError")]

TypicalPrice3(bar) == bar.high + bar.low + bar.close

\* df['typical_price'].cumsum() / df['volume'].cumsum() at bar j
\* (typical_price is (high + low + close) / 3).
VwapAt(bars, j) ==
    NumpyDiv(Fin(SumSeq([q \in 1..j |-> TypicalPrice3(bars[q])]), 3),
             Num(SumSeq([q \in 1..j |-> bars[q].volume])))

RECURSIVE VwapLevels(_, _)
VwapLevels(bars, j) ==
    IF j < 2 THEN <<>>
    ELSE LET before == VwapLevels(bars, j - 1)
             here == VwapAt(bars, j)
             prev == VwapAt(bars, j - 1)
             next == VwapAt(bars, j + 1)
         IN IF (FGt(here, prev) /\ FGt(here, next)) \/ (FLt(here, prev) /\ FLt(here, next))
            THEN IF FGt(here, prev)
                 THEN Append(before, <<here, "volume_resistance">>)
                 ELSE Append(before, <<here, "volume_support">>)
            ELSE before

_calculate_volume_weighted_levels(frame) ==
    IF "typical_price" \notin frame.cols
    THEN [frame |-> frame, out |-> Raise("KeyError")]
    ELSE [frame |-> WithCols(frame, {"vwap"}),
          out |-> Ret(VwapLevels(frame.bars, Len(frame.bars) - 1))]

\* TradingEngineSetup.initialize_session: indicators, volume profile,
\* levels, bias; the first exception leaves the method.
initialize_session(frame, start_time, end_time, rows, ta_ok) ==
    LET indicators == compute_indicators(frame, ta_ok)
        volume_profile == compute_volume_profile(indicators.frame, start_time, end_time, rows)
        price_levels == calculate_levels(indicators.frame)
    IN IF indicators.out.status = "raise" THEN indicators
       ELSE IF volume_profile.status = "raise" THEN [frame |-> indicators.frame, out |-> volume_profile]
       ELSE price_levels

\* TradingEngineSetup.prepare_trading_strategy calls compute_indicators with
\* sma_period alone: seven required arguments are missing, TypeError.
prepare_trading_strategy(frame) == [frame |-> frame, out |-> Raise("TypeError")]

\* analyze_session / analyze_strategy: the signal and risk steps follow the
\* setup call and run only if it returned.
analyze_session(frame, start_time, end_time, rows, ta_ok) ==
    initialize_session(frame, start_time, end_time, rows, ta_ok)

analyze_strategy(frame) == prepare_trading_strategy(frame)

PipelineFrames == {Frame(FlatBars(c)) : c \in ShortCloses}

ComputeIndicators ==
    /\ op = "idle"
    /\ \E ta_ok \in BOOLEAN :
        /\ op' = "compute_indicators"
        /\ arg' = [ta_ok |-> ta_ok]
        /\ loc' = NoCall
        /\ res' = compute_indicators(df, ta_ok).out
        /\ df' = compute_indicators(df, ta_ok).frame

CalculateLevels ==
    /\ op = "idle"
    /\ op' = "calculate_levels"
    /\ arg' = NoCall
    /\ loc' = NoCall
    /\ res' = calculate_levels(df).out
    /\ df' = calculate_levels(df).frame

DetectBias ==
    /\ op = "idle"
    /\ op' = "detect_bias"
    /\ arg' = NoCall
    /\ loc' = NoCall
    /\ res' = detect_bias(df).out
    /\ df' = detect_bias(df).frame

CalculateVolumeWeightedLevels ==
    /\ op = "idle"
    /\ op' = "_calculate_volume_weighted_levels"
    /\ arg' = NoCall
    /\ loc' = NoCall
    /\ res' = _calculate_volume_weighted_levels(df).out
    /\ df' = _calculate_volume_weighted_levels(df).frame

AnalyzeSession ==
    /\ op = "idle"
    /\ \E start_time \in 0..MaxTime, end_time \in 0..MaxTime, rows \in 1..MaxRows, ta_ok \in BOOLEAN :
        /\ start_time <= end_time
        /\ op' = "analyze_session"
        /\ arg' = [start_time |-> start_time, end_time |-> end_time, rows |-> rows, ta_ok |-> ta_ok]
        /\ loc' = NoCall
        /\ res' = analyze_session(df, start_time, end_time, rows, ta_ok).out
        /\ df' = analyze_session(df, start_time, end_time, rows, ta_ok).frame

AnalyzeStrategy ==
    /\ op = "idle"
    /\ op' = "analyze_strategy"
    /\ arg' = NoCall
    /\ loc' = NoCall
    /\ res' = analyze_strategy(df).out
    /\ df' = analyze_strategy(df).frame

InitPipeline ==
    /\ df \in PipelineFrames
    /\ op = "idle"
    /\ arg = NoCall
    /\ loc = NoCall
    /\ res = NoCall

NextPipeline ==
    \/ ComputeIndicators
    \/ CalculateLevels
    \/ DetectBias
    \/ CalculateVolumeWeightedLevels
    \/ ComputeVolumeProfile
    \/ CalculateStopLoss
    \/ CalculateTakeProfit
    \/ CalculateRiskReward
    \/ CalculateRiskParameters
    \/ AnalyzeSession
    \/ AnalyzeStrategy
    \/ Return

SpecPipeline == InitPipeline /\ [][NextPipeline]_vars

(***************************************************************************)
(* trading_engine.py : the signal generator.  `data` carries the level map *)
(* and the overall bias; the level map is walked in ascending price order, *)
(* the order in which _combine_levels builds it.                           *)
(***************************************************************************)
MaxLevels == 2

OverallBiases ==
    {"strong_bullish", "strong_bearish", "moderate_bullish", "moderate_bearish", "weak_bullish",
     "weak_bearish", "momentum_bullish", "momentum_bearish", "neutral_bias"}

\* The entry priced and timed at the first bar instead of the last.
EntriesOf_firstBar(bars, overall_bias) ==
    IF overall_bias = "strong_bullish"
    THEN << [type |-> "bullish_entry", price |-> bars[1].close, time |-> bars[1].t] >>
    ELSE IF overall_bias = "strong_bearish"
    THEN << [type |-> "bearish_entry", price |-> bars[1].close, time |-> bars[1].t] >>
    ELSE <<>>

\* signals['entries'] after the if/elif on bias['overall_bias'] (the table is
\* not empty).
EntriesOf(bars, overall_bias) ==
    IF overall_bias = "strong_bullish"
    THEN << [type |-> "bullish_entry", price |-> bars[Len(bars)].close, time |-> bars[Len(bars)].t] >>
    ELSE IF overall_bias = "strong_bearish"
    THEN << [type |-> "bearish_entry", price |-> bars[Len(bars)].close, time |-> bars[Len(bars)].t] >>
    ELSE <<>>

\* df[df['close'] >= price] / df[df['close'] <= price]
Qualifying(bars, price, level_type) ==
    IF level_type = "resistance"
    THEN SelectSeq(bars, LAMBDA bar : bar.close >= price)
    ELSE SelectSeq(bars, LAMBDA bar : bar.close <= price)

\* The exit timed at the first qualifying bar.
ExitOf_firstQualifying(bars, price, level_type) ==
    [type |-> IF level_type = "resistance" THEN "resistance_exit" ELSE "support_exit",
     price |-> price,
     time |-> Qualifying(bars, price, level_type)[1].t]

\* The exit appended for a support or resistance level; .index[-1] is the
\* last qualifying bar.
ExitOf(bars, price, level_type) ==
    LET rows == Qualifying(bars, price, level_type)
    IN [type |-> IF level_type = "resistance" THEN "resistance_exit" ELSE "support_exit",
        price |-> price,
        time |-> rows[Len(rows)].t]

ExitKinds == {"resistance", "support"}

\* .index[-1] of an empty selection raises IndexError.
ExitFails(bars, price, level_type) ==
    level_type \in ExitKinds /\ Qualifying(bars, price, level_type) = <<>>

\* signals['exits'] after the loop has visited the first j levels (none of
\* them failing).
RECURSIVE ExitsOf(_, _, _, _)
ExitsOf(bars, price_levels, levels, j) ==
    IF j = 0 THEN <<>>
    ELSE LET before == ExitsOf(bars, price_levels, levels, j - 1)
         IN IF price_levels[levels[j]] \in ExitKinds
            THEN Append(before, ExitOf(bars, levels[j], price_levels[levels[j]]))
            ELSE before

\* signals['trades']: for every entry, for every exit.
TradesOf(entries, exits) ==
    [q \in 1..(Len(entries) * Len(exits)) |->
        LET entry == entries[((q - 1) \div Len(exits)) + 1]
            exit == exits[((q - 1) % Len(exits)) + 1]
        IN [entry |-> entry, exit |-> exit, profit |-> exit.price - entry.price]]

StrongBiases == {"strong_bullish", "strong_bearish"}

\* df['close'].iloc[-1] of an empty table raises IndexError.
EntryFails(bars, overall_bias) == overall_bias \in StrongBiases /\ bars = <<>>

_generate_signals(bars, price_levels, overall_bias) ==
    LET levels == SortedKeys(price_levels)
    IN IF EntryFails(bars, overall_bias) THEN Raise("IndexError")
       ELSE IF \E j \in 1..Len(levels) : ExitFails(bars, levels[j], price_levels[levels[j]])
       THEN Raise("IndexError")
       ELSE LET entries == EntriesOf(bars, overall_bias)
                exits == ExitsOf(bars, price_levels, levels, Len(levels))
            IN Ret([entries |-> entries, exits |-> exits, trades |-> TradesOf(entries, exits)])

\* Level maps of the signal calls: up to MaxLevels prices around the closes
\* of the table, each of any kind.
SignalPrices == 0..3

SignalKinds == {"support", "resistance", "dynamic", "fib_50", "volume_support"}

SignalLevelMaps ==
    UNION {[keys -> SignalKinds] : keys \in {k \in SUBSET SignalPrices : Cardinality(k) <= MaxLevels}}

SignalFrames == {Frame(FlatBars(c)) : c \in ShortCloses}

GenerateSignals ==
    /\ op = "idle"
    /\ \E price_levels \in SignalLevelMaps, overall_bias \in OverallBiases :
        /\ op' = "_generate_signals"
        /\ arg' = [price_levels |-> price_levels, overall_bias |-> overall_bias]
        /\ loc' = [entries |-> IF EntryFails(df.bars, overall_bias) THEN <<>>
                               ELSE EntriesOf(df.bars, overall_bias)]
        /\ res' = _generate_signals(df.bars, price_levels, overall_bias)
        /\ UNCHANGED df

(***************************************************************************)
(* trading_engine.py : trade validation and position sizing.  A trade is   *)
(* held as the set of its top-level fields, the two prices and the risk;   *)
(* the products and quotients are exact fractions.                         *)
(***************************************************************************)
TradeFields == {"entry", "exit", "risk_reward"}

FAbs(a) == IF a.k = "fin" THEN [k |-> "fin", n |-> Abs(a.n), d |-> a.d] ELSE IF a.k = "nan" THEN NaN ELSE PInf

\* abs(trade['exit']['price'] - trade['entry']['price'])
PriceDifference(trade) == FAbs(FSub(trade.exit_price, trade.entry_price))

_validate_trade(trade) ==
    IF \E field \in TradeFields : field \notin trade.fields THEN FALSE
    ELSE IF FLt(PriceDifference(trade), Fin(1, 100)) THEN FALSE
    ELSE TRUE

\* The floor of the position size.
FloorSize(position_size) == IF FLt(position_size, Fin(1, 1000)) THEN Fin(1, 1000) ELSE position_size

\* abs(...) * 0.01 / risk: a zero risk raises ZeroDivisionError between
\* Python numbers and gives inf when either operand is a numpy scalar.
_calculate_position_size(trade, numpy_values) ==
    LET numerator == FMul(PriceDifference(trade), Fin(1, 100))
    IN IF trade.risk.n = 0 /\ ~numpy_values THEN Raise("ZeroDivisionError")
       ELSE Ret(FloorSize(NumpyDiv(numerator, trade.risk)))

execute_trade(trade, numpy_values) ==
    IF ~_validate_trade(trade)
    THEN Ret([status |-> "invalid", message |-> "Trade parameters invalid"])
    ELSE LET position_size == _calculate_position_size(trade, numpy_values)
         IN IF position_size.status = "raise" THEN position_size
            ELSE Ret([status |-> "executed",
                      profit |-> FSub(trade.exit_price, trade.entry_price),
                      position_size |-> position_size.value])

\* Trades of the sizing calls: prices 0.005, 0.01 and 1 apart, risks on both
\* sides of zero and one large enough to bring the size under the floor.
TradePrices == {Num(100), Fin(100005, 1000), Fin(10001, 100), Num(101)}

TradeRisks == {Num(0), Num(1), Num(-1), Num(20)}

Trades ==
    {[fields |-> fields, entry_price |-> entry_price, exit_price |-> exit_price, risk |-> risk] :
        fields \in SUBSET TradeFields, entry_price \in TradePrices, exit_price \in TradePrices,
        risk \in TradeRisks}

ExecuteTrade ==
    /\ op = "idle"
    /\ \E trade \in Trades, numpy_values \in BOOLEAN :
        /\ op' = "execute_trade"
        /\ arg' = [trade |-> trade, numpy_values |-> numpy_values]
        /\ loc' = [valid |-> _validate_trade(trade)]
        /\ res' = execute_trade(trade, numpy_values)
        /\ UNCHANGED df

InitSignals ==
    /\ df \in SignalFrames
    /\ op = "idle"
    /\ arg = NoCall
    /\ loc = NoCall
    /\ res = NoCall

NextSignals == GenerateSignals \/ ExecuteTrade \/ Return

SpecSignals == InitSignals /\ [][NextSignals]_vars

(***************************************************************************)
(* C1: for every triple of classifier outputs _combine_bias returns the    *)
(* result of the first matching rule of the ordered nine-rule list;        *)
(* (bullish, bullish, bullish) gives strong_bullish, (bullish, bullish,    *)
(* neutral volume) moderate_bullish, bullish trend alone weak_bullish.     *)
(***************************************************************************)
BiasRules ==
    << [t |-> {"bullish_trend"}, m |-> {"bullish_momentum"}, v |-> {"bullish_volume"}, out |-> "strong_bullish"],
       [t |-> {"bearish_trend"}, m |-> {"bearish_momentum"}, v |-> {"bearish_volume"}, out |-> "strong_bearish"],
       [t |-> {"bullish_trend"}, m |-> {"bullish_momentum"}, v |-> VolumeBiases, out |-> "moderate_bullish"],
       [t |-> {"bearish_trend"}, m |-> {"bearish_momentum"}, v |-> VolumeBiases, out |-> "moderate_bearish"],
       [t |-> {"bullish_trend"}, m |-> MomentumBiases, v |-> VolumeBiases, out |-> "weak_bullish"],
       [t |-> {"bearish_trend"}, m |-> MomentumBiases, v |-> VolumeBiases, out |-> "weak_bearish"],
       [t |-> TrendBiases, m |-> {"bullish_momentum"}, v |-> VolumeBiases, out |-> "momentum_bullish"],
       [t |-> TrendBiases, m |-> {"bearish_momentum"}, v |-> VolumeBiases, out |-> "momentum_bearish"],
       [t |-> TrendBiases, m |-> MomentumBiases, v |-> VolumeBiases, out |-> "neutral_bias"] >>

RuleMatches(r, a) == a.trend \in BiasRules[r].t /\ a.momentum \in BiasRules[r].m /\ a.volume \in BiasRules[r].v

FirstMatchingRule(a) == CHOOSE r \in 1..9 : RuleMatches(r, a) /\ \A q \in 1..(r - 1) : ~RuleMatches(q, a)

C1_FirstMatchWins ==
    op = "_combine_bias" =>
        /\ res = Ret(BiasRules[FirstMatchingRule(arg)].out)
        /\ (arg = [trend |-> "bullish_trend", momentum |-> "bullish_momentum", volume |-> "bullish_volume"]
                => res.value = "strong_bullish")
        /\ (arg = [trend |-> "bullish_trend", momentum |-> "bullish_momentum", volume |-> "neutral_volume"]
                => res.value = "moderate_bullish")
        /\ (arg = [trend |-> "bullish_trend", momentum |-> "neutral_momentum", volume |-> "neutral_volume"]
                => res.value = "weak_bullish")

C1_Witness ==
    /\ op = "_combine_bias"
    /\ arg = [trend |-> "bullish_trend", momentum |-> "bullish_momentum", volume |-> "neutral_volume"]
    /\ res = Ret("moderate_bullish")

(***************************************************************************)
(* C8 as stated: for a 10-bar series with strictly increasing closes and   *)
(* SMA period 3 the scan records exactly one bullish crossing, so          *)
(* sma_crossover = bullish, and trend_bias is bullish_trend when           *)
(* ema_crossover is bullish and neutral_trend when it is neutral.          *)
(***************************************************************************)
RisingCase ==
    /\ op = "_detect_trend_bias"
    /\ Len(df.bars) = 10
    /\ StrictlyIncreasing(Column(df, "close"))
    /\ arg.period = 3

ProposedKinds(list, price) == {list[j][2] : j \in {q \in 1..Len(list) : list[q][1] = price}}

LastProposed(list, price) ==
    list[CHOOSE j \in 1..Len(list) : list[j][1] = price /\ \A q \in (j + 1)..Len(list) : list[q][1] # price][2]

ProfileReturned == op = "compute_volume_profile" /\ res.status = "ok"

C3_PartitionOfVolume ==
    ProfileReturned => SumSeq(res.value.volume_distribution) = VolumeSum(loc.session_df)

(***************************************************************************)
(* C4: compute_volume_profile produces exactly `rows` intervals of equal   *)
(* duration, each ending where the next starts, that together span the     *)
(* configured window [session_start, session_end]; volume_distribution has *)
(* one key per interval, 0 for an interval without bars.                   *)
(***************************************************************************)
C4_IntervalsSpanSessionWindow ==
    ProfileReturned =>
        LET iv == res.value.time_intervals
        IN /\ Len(iv) = arg.rows
           /\ \A j \in 1..Len(iv) : FSub(iv[j][2], iv[j][1]) = FSub(iv[1][2], iv[1][1])
           /\ \A j \in 1..(Len(iv) - 1) : iv[j][2] = iv[j + 1][1]
           /\ iv[1][1] = Num(arg.start_time)
           /\ iv[Len(iv)][2] = Num(arg.end_time)
           /\ DOMAIN res.value.volume_distribution = DOMAIN iv
           /\ \A j \in DOMAIN iv :
                 IntervalBars(loc.session_df, iv[j]) = <<>> => res.value.volume_distribution[j] = 0

(***************************************************************************)
(* C7: when the session slice has at least one bar and zero total volume,  *)
(* compute_volume_profile fails (division by zero) and returns no result;  *)
(* it never returns a NaN value_area_percent or per-rank percentage.       *)
(***************************************************************************)
C7_ZeroVolumeFails ==
    (op = "compute_volume_profile" /\ loc.session_df # <<>> /\ VolumeSum(loc.session_df) = 0) =>
        res.status = "raise"

TwoLevelMap == [price \in {100, 110} |-> IF price = 100 THEN "support" ELSE "resistance"]

TwoLevelCase(call) ==
    /\ op = call
    /\ arg.price_levels = TwoLevelMap
    /\ loc.atr.out = Ret(Num(2))

C6_Original ==
    /\ TwoLevelCase("calculate_stop_loss") => res.value[110] = Num(108)
    /\ TwoLevelCase("calculate_take_profit") => res.value[100] = Num(112)

(***************************************************************************)
(* C6 amended: for the level map {100: support, 110: resistance} and       *)
(* ATR = 2, stop_loss[110] = 98 (= min(108, 98), lowered because the level *)
(* just below 110 is the support at 100) and take_profit[100] = 112        *)
(* (= max(102, 112)).                                                      *)
(***************************************************************************)
C6_TwoLevelScenario ==
    /\ TwoLevelCase("calculate_stop_loss") => (res.status = "ok" /\ res.value[110] = Num(98))
    /\ TwoLevelCase("calculate_take_profit") => (res.status = "ok" /\ res.value[100] = Num(112))

C6_Witness == TwoLevelCase("calculate_stop_loss") /\ res.value[110] = Num(98)

(***************************************************************************)
(* C10: a failure of a stage reaches the caller: when the ATR computation  *)
(* fails (a non-positive period, fewer bars than the period) the call      *)
(* ends with that failure and no ATR value, and no stop_loss, take_profit  *)
(* or risk_reward result built on one, is returned.                        *)
(***************************************************************************)
C10_AtrFailurePropagates ==
    (op \in {"_calculate_atr", "_calculate_risk_parameters"} /\ loc.atr.caught # "none")
        => res.status = "raise"

(***************************************************************************)
(* C9: every pipeline stage leaves the caller-supplied price series        *)
(* unchanged: after any call the table has the same columns (open, high,   *)
(* low, close, volume only) and the same values as before it.              *)
(***************************************************************************)
C9_TableUnchanged == [][df' = df]_vars

(***************************************************************************)
(* C11: _generate_signals produces at most one entry per call: exactly one *)
(* bullish_entry, priced and timed at the last bar's close and time, iff   *)
(* overall_bias = strong_bullish, exactly one bearish_entry iff            *)
(* overall_bias = strong_bearish, and none for every other overall_bias;   *)
(* so the trades list is empty unless the bias is one of those two, and    *)
(* never has more records than there are exits.                            *)
(***************************************************************************)
LastBar == df.bars[Len(df.bars)]

C11_AtMostOneEntry ==
    op = "_generate_signals" =>
        /\ Len(loc.entries) <= 1
        /\ df.bars # <<>> =>
              /\ arg.overall_bias = "strong_bullish" <=>
                    loc.entries = << [type |-> "bullish_entry", price |-> LastBar.close, time |-> LastBar.t] >>
              /\ arg.overall_bias = "strong_bearish" <=>
                    loc.entries = << [type |-> "bearish_entry", price |-> LastBar.close, time |-> LastBar.t] >>
              /\ arg.overall_bias \notin {"strong_bullish", "strong_bearish"} <=> loc.entries = <<>>
        /\ res.status = "ok" =>
              /\ res.value.entries = loc.entries
              /\ Len(res.value.trades) = Len(res.value.entries) * Len(res.value.exits)
              /\ Len(res.value.trades) <= Len(res.value.exits)
              /\ arg.overall_bias \notin {"strong_bullish", "strong_bearish"} => res.value.trades = <<>>
              /\ \A q \in 1..Len(res.value.trades) :
                    /\ res.value.trades[q].entry = res.value.entries[1]
                    /\ res.value.trades[q].exit = res.value.exits[q]

C11_Witness ==
    /\ op = "_generate_signals"
    /\ arg.overall_bias = "strong_bearish"
    /\ Len(df.bars) = 3
    /\ df.bars[1].close # df.bars[3].close
    /\ res.status = "ok"
    /\ Len(res.value.trades) = 2

(***************************************************************************)
(* C18: _generate_signals emits exactly one exit per level of kind support *)
(* or resistance and none for any other kind: a resistance level yields a  *)
(* resistance_exit timed at the last bar whose close >= the level price, a *)
(* support level a support_exit timed at the last bar whose close <= the   *)
(* level price; when no bar satisfies the condition for some level the     *)
(* call fails (IndexError stands for NoQualifyingBar) and returns nothing. *)
(***************************************************************************)
ExitLevels == {price \in DOMAIN arg.price_levels : arg.price_levels[price] \in {"support", "resistance"}}

BarsAtOrAbove(price) == {j \in 1..Len(df.bars) : df.bars[j].close >= price}

BarsAtOrBelow(price) == {j \in 1..Len(df.bars) : df.bars[j].close <= price}

QualifyingBars(price) ==
    IF arg.price_levels[price] = "resistance" THEN BarsAtOrAbove(price) ELSE BarsAtOrBelow(price)

LatestOf(S) == CHOOSE j \in S : \A q \in S : q <= j

C18_OneExitPerLevel ==
    op = "_generate_signals" =>
        /\ (\E price \in ExitLevels : QualifyingBars(price) = {}) => res.status = "raise"
        /\ res.status = "ok" =>
              LET exits == res.value.exits
              IN /\ Len(exits) = Cardinality(ExitLevels)
                 /\ {exits[q].price : q \in 1..Len(exits)} = ExitLevels
                 /\ \A q \in 1..Len(exits) :
                       /\ exits[q].type = (IF arg.price_levels[exits[q].price] = "resistance"
                                           THEN "resistance_exit" ELSE "support_exit")
                       /\ exits[q].time = df.bars[LatestOf(QualifyingBars(exits[q].price))].t

C18_Witness ==
    /\ op = "_generate_signals"
    /\ res.status = "ok"
    /\ Cardinality(DOMAIN arg.price_levels) = 2
    /\ \E q \in 1..Len(res.value.exits) :
          /\ res.value.exits[q].type = "resistance_exit"
          /\ Cardinality(BarsAtOrAbove(res.value.exits[q].price)) = 2
          /\ res.value.exits[q].time = 3
    /\ \E price \in DOMAIN arg.price_levels : arg.price_levels[price] = "fib_50"

C18_WitnessNoQualifyingBar ==
    /\ op = "_generate_signals"
    /\ df.bars # <<>>
    /\ \E price \in ExitLevels : QualifyingBars(price) = {}
    /\ res = Raise("IndexError")

(***************************************************************************)
(* C12: execute_trade rejects a trade exactly when one of the fields       *)
(* entry, exit, risk_reward is absent or |exit.price - entry.price| < 0.01 *)
(* (a rejection counts whether raised or returned as status invalid); for  *)
(* every other trade it returns an executed result whose position_size is  *)
(* |exit.price - entry.price| * 0.01 / risk floored at 0.001, so           *)
(* position_size >= 0.001 always.                                          *)
(***************************************************************************)
Rejected == res.status = "raise" \/ (res.status = "ok" /\ res.value.status = "invalid")

MustReject(trade) ==
    \/ trade.fields # {"entry", "exit", "risk_reward"}
    \/ FLt(FAbs(FSub(trade.exit_price, trade.entry_price)), Fin(1, 100))

C12_RejectOrSize ==
    op = "execute_trade" =>
        IF MustReject(arg.trade) THEN Rejected
        ELSE /\ res.status = "ok"
             /\ res.value.status = "executed"
             /\ FGe(res.value.position_size, Fin(1, 1000))
             /\ \/ res.value.position_size = Fin(1, 1000)
                \/ arg.trade.risk = Num(0)
                \/ FMul(res.value.position_size, arg.trade.risk)
                      = FMul(FAbs(FSub(arg.trade.exit_price, arg.trade.entry_price)), Fin(1, 100))

(***************************************************************************)
(* C13: the crossover scan visits the indices 1..N-1 in chronological      *)
(* order, records bullish at index i when the value crosses from           *)
(* <= reference(i-1) to > reference(i-1) and bearish for the opposite      *)
(* crossing, and returns the event recorded at the greatest index, neutral *)
(* when there is none; the same for close against SMA and for ema_fast     *)
(* against ema_slow; an index whose reference is still undefined records   *)
(* no event.  (Index i of the code is position i + 1 here.)                *)
(***************************************************************************)
ScanCalls == {"_check_sma_crossover", "_check_ema_crossover"}

ScanValue ==
    IF op = "_check_sma_crossover" THEN [i \in 1..Len(df.bars) |-> Num(df.bars[i].close)] ELSE arg.ema_fast

ScanReference ==
    IF op = "_check_sma_crossover" THEN SMA(Column(df, "close"), arg.period) ELSE arg.ema_slow

BullishAt(i) == FLe(ScanValue[i - 1], ScanReference[i - 1]) /\ FGt(ScanValue[i], ScanReference[i - 1])

BearishAt(i) == FGe(ScanValue[i - 1], ScanReference[i - 1]) /\ FLt(ScanValue[i], ScanReference[i - 1])

EventIndices == {i \in 2..Len(df.bars) : BullishAt(i) \/ BearishAt(i)}

EventsBefore(i) == Cardinality({q \in EventIndices : q <= i})

SeriesHigh == CHOOSE h \in {df.bars[j].high : j \in 1..Len(df.bars)} : \A j \in 1..Len(df.bars) : df.bars[j].high <= h

SeriesLow == CHOOSE l \in {df.bars[j].low : j \in 1..Len(df.bars)} : \A j \in 1..Len(df.bars) : l <= df.bars[j].low

Retracement(thousandths) == FAdd(Num(SeriesLow), FMul(Fin(thousandths, 1000), Num(SeriesHigh - SeriesLow)))

SixPairs ==
    << <<Retracement(382), "fib_38.2">>, <<Retracement(500), "fib_50">>, <<Retracement(618), "fib_61.8">>,
       <<Retracement(382), "resistance">>, <<Retracement(500), "resistance">>, <<Retracement(618), "resistance">> >>

C14_SixFibonacciPairs ==
    (op = "_calculate_fibonacci_levels" /\ df.bars # <<>>) =>
        /\ res.status # "raise"
        /\ Len(loc.fib_levels) <= 6
        /\ loc.fib_levels = SubSeq(SixPairs, 1, Len(loc.fib_levels))
        /\ res.status = "ok" => res.value = SixPairs

(***************************************************************************)
(* C15: for every level map and ATR value, with the levels in ascending    *)
(* order, stop_loss[p] = p - ATR, except that it is min(p - ATR, lower -   *)
(* ATR) when the immediately lower level has kind support; take_profit[p]  *)
(* = p + ATR, except that it is max(p + ATR, higher + ATR) when the        *)
(* immediately higher level has kind resistance.  Both maps have exactly   *)
(* the level map's keys, and for ATR >= 0 stop_loss[p] <= p - ATR and      *)
(* take_profit[p] >= p + ATR.                                              *)
(***************************************************************************)
LevelsBelow(p) == {q \in DOMAIN arg.price_levels : q < p}

LevelsAbove(p) == {q \in DOMAIN arg.price_levels : q > p}

NextLower(p) == CHOOSE q \in LevelsBelow(p) : \A u \in LevelsBelow(p) : u <= q

NextHigher(p) == CHOOSE q \in LevelsAbove(p) : \A u \in LevelsAbove(p) : q <= u

Smaller(a, b) == IF a.k = "nan" \/ b.k = "nan" THEN NaN ELSE IF FLe(a, b) THEN a ELSE b

Greater(a, b) == IF a.k = "nan" \/ b.k = "nan" THEN NaN ELSE IF FGe(a, b) THEN a ELSE b

Atr == loc.atr.out.value

C15_StopAndTargetRule ==
    /\ op = "calculate_stop_loss" =>
          /\ res.status = "ok"
          /\ DOMAIN res.value = DOMAIN arg.price_levels
          /\ \A p \in DOMAIN arg.price_levels :
                /\ res.value[p] =
                      (IF LevelsBelow(p) # {} /\ arg.price_levels[NextLower(p)] = "support"
                       THEN Smaller(FSub(Num(p), Atr), FSub(Num(NextLower(p)), Atr))
                       ELSE FSub(Num(p), Atr))
                /\ FGe(Atr, Num(0)) => FLe(res.value[p], FSub(Num(p), Atr))
    /\ op = "calculate_take_profit" =>
          /\ res.status = "ok"
          /\ DOMAIN res.value = DOMAIN arg.price_levels
          /\ \A p \in DOMAIN arg.price_levels :
                /\ res.value[p] =
                      (IF LevelsAbove(p) # {} /\ arg.price_levels[NextHigher(p)] = "resistance"
                       THEN Greater(FAdd(Num(p), Atr), FAdd(Num(NextHigher(p)), Atr))
                       ELSE FAdd(Num(p), Atr))
                /\ FGe(Atr, Num(0)) => FGe(res.value[p], FAdd(Num(p), Atr))

C15_Witness ==
    /\ op = "calculate_take_profit"
    /\ res.status = "ok"
    /\ loc.atr.out = Ret(Fin(3, 2))
    /\ DOMAIN arg.price_levels = {100, 105, 110}
    /\ arg.price_levels[105] = "resistance"
    /\ arg.price_levels[110] = "support"
    /\ res.value[100] = Fin(213, 2)
    /\ res.value[105] = Fin(213, 2)

(***************************************************************************)
(* C16: in calculate_risk_reward the ATR is computed before any step that  *)
(* reads it: for a level map whose first support (ascending) has a lower   *)
(* neighbouring level and whose first resistance has a higher neighbouring *)
(* level, the call completes and returns risk = support price - (previous  *)
(* level's price - ATR) and reward = next higher level's price -           *)
(* resistance price.                                                       *)
(***************************************************************************)
LevelsOfKind(kind) == {p \in DOMAIN arg.price_levels : arg.price_levels[p] = kind}

FirstLevel(kind) == CHOOSE p \in LevelsOfKind(kind) : \A q \in LevelsOfKind(kind) : p <= q

SupportHasLower == LevelsOfKind("support") # {} /\ LevelsBelow(FirstLevel("support")) # {}

ResistanceHasHigher == LevelsOfKind("resistance") # {} /\ LevelsAbove(FirstLevel("resistance")) # {}

C16_AtrComputedBeforeUse ==
    (op = "calculate_risk_reward" /\ SupportHasLower /\ ResistanceHasHigher) =>
        /\ res.status = "ok"
        /\ res.value.risk =
              FSub(Num(FirstLevel("support")), FSub(Num(NextLower(FirstLevel("support"))), Atr))
        /\ res.value.reward = Num(NextHigher(FirstLevel("resistance")) - FirstLevel("resistance"))

(***************************************************************************)
(* C17: calculate_risk_reward fails when the first support level           *)
(* (ascending) is the lowest level, when the first resistance level is the *)
(* highest level, and when risk is 0, which includes every map without a   *)
(* support level; in none of these cases does it return a record.  (Any    *)
(* raised exception counts as the failure.)                                *)
(***************************************************************************)
SupportIsLowest == LevelsOfKind("support") # {} /\ LevelsBelow(FirstLevel("support")) = {}

ResistanceIsHighest == LevelsOfKind("resistance") # {} /\ LevelsAbove(FirstLevel("resistance")) = {}

C17_NoRecordOnFailure ==
    (op = "calculate_risk_reward"
        /\ (SupportIsLowest \/ ResistanceIsHighest \/ LevelsOfKind("support") = {}))
        => res.status = "raise"

(***************************************************************************)
(* C19: the map built by _combine_levels depends only on the set of        *)
(* candidate (price, kind) pairs, not on the order in which they are       *)
(* supplied: permuting the pairs within a detector list, or swapping the   *)
(* three detector lists among the arguments, yields the same price -> kind *)
(* map.                                                                    *)
(***************************************************************************)
Reorderings(list) == {[j \in 1..Len(list) |-> list[f[j]]] : f \in Permutations(1..Len(list))}

C19_OrderIndependent ==
    op = "_combine_levels" =>
        /\ \A a \in Reorderings(arg.levels), b \in Reorderings(arg.fib_levels),
              c \in Reorderings(arg.volume_levels) :
                _combine_levels(a, b, c) = res.value
        /\ \A lists \in Reorderings(<<arg.levels, arg.fib_levels, arg.volume_levels>>) :
                _combine_levels(lists[1], lists[2], lists[3]) = res.value

C19_Witness ==
    /\ op = "_combine_levels"
    /\ Len(arg.levels) = 3
    /\ arg.fib_levels # <<>>
    /\ arg.volume_levels # <<>>
    /\ \E price \in DOMAIN res.value :
          Cardinality(ProposedKinds(arg.levels \o arg.fib_levels \o arg.volume_levels, price)) >= 3

====
